---- MODULE Spec2Model ----
(***************************************************************************)
(* A model of hts/core/functions.py: the summing matrix of a hierarchy,    *)
(* the assembly of the forecast matrix, the optimal combination of         *)
(* forecasts (OLS, WLSS, WLSV) and the two top-down proportion methods.    *)
(*                                                                         *)
(* Each function is a pure function of its arguments.  A call is one       *)
(* action: it draws the arguments from bounded sets, and records them and  *)
(* what the call gave back (a matrix, or the exception it raised).         *)
(*                                                                         *)
(* numpy's float64 is modelled by exact rationals <<n, d>> in lowest terms *)
(* with d >= 0; d = 0 stands for IEEE's inf (<<1,0>>), -inf (<<-1,0>>) and *)
(* nan (<<0,0>>).  Rounding is not modelled.                               *)
(***************************************************************************)
EXTENDS Integers, Sequences, FiniteSets, TLC

VARIABLES fn, nodes, forecasts, keys, sum_mat, method, mse, df, ret

vars == <<fn, nodes, forecasts, keys, sum_mat, method, mse, df, ret>>

(***************************************************************************)
(* What a call gives back.                                                 *)
(***************************************************************************)
Ok(m) == [ok |-> TRUE, val |-> m, err |-> ""]

Err(e) == [ok |-> FALSE, val |-> <<>>, err |-> e]

(***************************************************************************)
(* Integers and sequences.                                                 *)
(***************************************************************************)
Min(a, b) == IF a <= b THEN a ELSE b

Abs(a) == IF a < 0 THEN -a ELSE a

Sign(a) == IF a < 0 THEN -1 ELSE IF a > 0 THEN 1 ELSE 0

RECURSIVE GCD(_, _)
GCD(a, b) == IF b = 0 THEN a ELSE GCD(b, a % b)

RECURSIVE SumTo(_, _)
SumTo(s, k) == IF k = 0 THEN 0 ELSE SumTo(s, k - 1) + s[k]

\* Python's sum(s) of a list of integers
Sum(s) == SumTo(s, Len(s))

RECURSIVE Flatten(_)
Flatten(ss) == IF ss = <<>> THEN <<>> ELSE Head(ss) \o Flatten(Tail(ss))

\* a[lo:hi] on the first axis: numpy clips the slice to the array
SliceRows(a, lo, hi) ==
    LET top == Min(hi, Len(a))
    IN  IF lo + 1 > top THEN <<>> ELSE SubSeq(a, lo + 1, top)

(***************************************************************************)
(* numpy arrays of to_sum_mat: [nd |-> 1, v |-> a vector] is a             *)
(* one-dimensional array, [nd |-> 2, v |-> rows] a two-dimensional one.    *)
(***************************************************************************)
Arr1(v) == [nd |-> 1, v |-> v]

Arr2(rows) == [nd |-> 2, v |-> rows]

identity(n) == [i \in 1..n |-> [j \in 1..n |-> IF i = j THEN 1 ELSE 0]]

ones(n) == [j \in 1..n |-> 1]

zeros(n) == [j \in 1..n |-> 0]

\* a.sum(axis=0) of a two-dimensional slice with `columns` columns
ColSum(a, columns) == [j \in 1..columns |-> SumTo([i \in 1..Len(a) |-> a[i][j]], Len(a))]

\* np.atleast_2d, as np.vstack applies it to each of its arguments
AtLeast2d(B) == IF B.nd = 1 THEN <<B.v>> ELSE B.v

\* np.all(B == 0)
AllZero(B) == \A r \in 1..Len(AtLeast2d(B)) :
                 \A j \in 1..Len(AtLeast2d(B)[r]) : AtLeast2d(B)[r][j] = 0

\* np.vstack((B, a)) of an array B and a vector a
VStackVec(B, a) == Arr2(AtLeast2d(B) \o <<a>>)

(***************************************************************************)
(* to_sum_mat                                                              *)
(***************************************************************************)
\* list(map(sum, nodes))
num_at_level(nd) == [i \in 1..Len(nd) |-> Sum(nd[i])]

\* One pass of `for num2sum in summing` from its k-th entry on: the group of
\* rows bl_mat[count:num2sum_ind, :] is summed into one row of B.  Indexing a
\* one-dimensional bl_mat with [.. , :] raises IndexError.
RECURSIVE SumGroups(_, _, _, _, _, _, _)
SumGroups(bl_mat, summing, columns, k, count, num2sum_ind, B) ==
    IF k > Len(summing) THEN Ok(B)
    ELSE IF bl_mat.nd = 1 THEN Err("IndexError")
    ELSE LET ind == num2sum_ind + summing[k]
             a   == SliceRows(bl_mat.v, count, ind)
             row == ColSum(a, columns)
             B2  == IF AllZero(B) THEN Arr1(row) ELSE VStackVec(B, row)
         IN  SumGroups(bl_mat, summing, columns, k + 1, count + summing[k], ind, B2)

\* `for lev in range(num_levels - 1)` from lev on; final_mat is two-dimensional
RECURSIVE SumLevels(_, _, _, _, _)
SumLevels(nd, columns, lev, bl_mat, final_mat) ==
    IF lev > Len(nd) - 2 THEN Ok(final_mat)
    ELSE LET summing == nd[Len(nd) - lev]
             r == SumGroups(bl_mat, summing, columns, 1, 0, 0, Arr1(zeros(columns)))
         IN  IF ~r.ok THEN r
             ELSE SumLevels(nd, columns, lev + 1, r.val, AtLeast2d(r.val) \o final_mat)

\* the root row left out
StackTopDropped(top, final_mat) == final_mat

\* np.vstack((top, final_mat))
StackTop(top, final_mat) == <<top>> \o final_mat

to_sum_mat(nd) ==
    IF nd = <<>> THEN Err("IndexError")   \* num_at_level[-1] of an empty list
    ELSE LET columns == num_at_level(nd)[Len(nd)]
             r == SumLevels(nd, columns, 0, Arr2(identity(columns)), identity(columns))
         IN  IF ~r.ok THEN r ELSE Ok(StackTop(ones(columns), r.val))

(***************************************************************************)
(* Level-order structures: every way to cut a sequence of at most          *)
(* MaxEntries child counts, each at most MaxCount, into levels; and the    *)
(* empty structure.                                                        *)
(***************************************************************************)
MaxEntries == 4

MaxCount == 2

RECURSIVE Split(_, _, _, _)
Split(f, cuts, i, cur) ==
    IF i > Len(f) THEN <<>>
    ELSE LET c == Append(cur, f[i])
         IN  IF i \in cuts \/ i = Len(f)
             THEN <<c>> \o Split(f, cuts, i + 1, <<>>)
             ELSE Split(f, cuts, i + 1, c)

CountSeqs == UNION {[1..L -> 0..MaxCount] : L \in 1..MaxEntries}

LevelOrders == {<<>>} \cup {Split(f, c, 1, <<>>) : f \in CountSeqs, c \in SUBSET (1..(MaxEntries - 1))}

\* The precondition of a level-order structure: a root level of one entry,
\* counts >= 1, and as many entries at level i+1 as the counts at level i sum to
Consistent(nd) ==
    /\ nd # <<>>
    /\ Len(nd[1]) = 1
    /\ \A i \in 1..(Len(nd) - 1) : Sum(nd[i]) = Len(nd[i + 1])

CountsPositive(nd) == \A i \in 1..Len(nd) : \A j \in 1..Len(nd[i]) : nd[i][j] >= 1

ValidLevelOrder(nd) == Consistent(nd) /\ CountsPositive(nd)

\* the nodes of the hierarchy, the root included
NumNodes(nd) == 1 + Sum(num_at_level(nd))

(***************************************************************************)
(* Exact arithmetic for float64: <<n, d>> with d >= 0 in lowest terms.     *)
(* <<1,0>> is inf, <<-1,0>> is -inf, <<0,0>> is nan, as numpy gives them   *)
(* for a division by zero (with a warning, not an exception).              *)
(***************************************************************************)
Norm(n, d) ==
    IF d = 0 THEN <<Sign(n), 0>>
    ELSE LET g == GCD(Abs(n), Abs(d))
         IN  IF d < 0 THEN <<(-n) \div g, (-d) \div g>> ELSE <<n \div g, d \div g>>

Rat(i) == <<i, 1>>

IsFinite(x) == x[2] # 0

RAdd(x, y) ==
    IF x[2] = 0 /\ y[2] = 0
    THEN (IF x[1] = y[1] THEN x ELSE <<0, 0>>)
    ELSE Norm(x[1] * y[2] + y[1] * x[2], x[2] * y[2])

RNeg(x) == <<-x[1], x[2]>>

RSub(x, y) == RAdd(x, RNeg(y))

RMul(x, y) == Norm(x[1] * y[1], x[2] * y[2])

RInv(x) == IF x[1] < 0 THEN <<-x[2], -x[1]>> ELSE <<x[2], x[1]>>

RDiv(x, y) == RMul(x, RInv(y))

\* a sequence with its entries evaluated once
Eager(s) == s \o <<>>

RECURSIVE RSumTo(_, _)
RSumTo(s, k) == IF k = 0 THEN Rat(0) ELSE RAdd(RSumTo(s, k - 1), s[k])

RSum(s) == RSumTo(s, Len(s))

(***************************************************************************)
(* Matrices of rationals, as sequences of rows.                            *)
(***************************************************************************)
RatMat(m) == Eager([i \in 1..Len(m) |-> Eager([j \in 1..Len(m[i]) |-> Rat(m[i][j])])])

NumCols(m) == IF m = <<>> THEN 0 ELSE Len(m[1])

\* np.transpose of an r x c matrix; c is given since an empty matrix has no row to tell it
TransposeTo(m, c) == Eager([j \in 1..c |-> Eager([i \in 1..Len(m) |-> m[i][j]])])

\* the inner product of two vectors of equal length
Dot(u, v) == RSum([k \in 1..Len(u) |-> RMul(u[k], v[k])])

\* np.dot of an r x k matrix and a k x c matrix
MatMul(a, b, c) ==
    LET bt == TransposeTo(b, c)
    IN  Eager([i \in 1..Len(a) |-> Eager([j \in 1..c |-> Dot(a[i], bt[j])])])

\* np.dot of a matrix and a vector
MatVec(a, v) == Eager([i \in 1..Len(a) |-> Dot(a[i], v)])

\* np.diag of a vector
Diag(v) == Eager([i \in 1..Len(v) |-> Eager([j \in 1..Len(v) |-> IF i = j THEN v[i] ELSE Rat(0)])])

\* Gauss-Jordan elimination of the n x 2n matrix [A | I] from column k on;
\* <<>> when A is singular
RECURSIVE Eliminate(_, _, _)
Eliminate(M, n, k) ==
    IF k > n THEN M
    ELSE LET P == {r \in k..n : M[r][k][1] # 0}
         IN  IF P = {} THEN <<>>
             ELSE LET p   == CHOOSE r \in P : \A q \in P : r <= q
                      piv == Eager([j \in 1..(2 * n) |-> RDiv(M[p][j], M[p][k])])
                      M2  == Eager([r \in 1..n |->
                                 IF r = k THEN piv
                                 ELSE LET src == IF r = p THEN M[k] ELSE M[r]
                                      IN  IF src[k][1] = 0 THEN src
                                          ELSE Eager([j \in 1..(2 * n) |->
                                                   RSub(src[j], RMul(src[k], piv[j]))])])
                  IN  Eliminate(M2, n, k + 1)

\* np.linalg.inv of a square matrix: LinAlgError when it is singular
inv(A) ==
    LET n   == Len(A)
        aug == Eager([i \in 1..n |-> Eager([j \in 1..(2 * n) |->
                    IF j <= n THEN A[i][j] ELSE IF j - n = i THEN Rat(1) ELSE Rat(0)])])
        R   == Eliminate(aug, n, 1)
    IN  IF n > 0 /\ R = <<>> THEN Err("LinAlgError")
        ELSE Ok(Eager([i \in 1..n |-> SubSeq(R[i], n + 1, 2 * n)]))


(***************************************************************************)
(* y_hat_matrix.  `forecasts` is a function from the keys 0..n-1, in the   *)
(* dict's insertion order, to each forecast's yhat; `keys` is a sequence   *)
(* of keys, <<>> for None (or an empty list: `not keys`).                  *)
(***************************************************************************)
\* list(forecasts.keys())
DictKeys(fc) == [i \in 1..Cardinality(DOMAIN fc) |-> i - 1]

\* np.all(y_hat_mat == 0)
AllZeroMat(m) == \A i \in 1..Len(m) : \A j \in 1..Len(m[i]) : m[i][j] = 0

\* f1[:, np.newaxis]
AsColumn(f1) == [i \in 1..Len(f1) |-> <<f1[i]>>]

\* np.concatenate((y_hat_mat, f2), axis=1): ValueError unless the row counts agree
ConcatColumns(y_hat_mat, f2) ==
    IF Len(y_hat_mat) # Len(f2) THEN Err("ValueError")
    ELSE Ok([i \in 1..Len(f2) |-> y_hat_mat[i] \o f2[i]])

\* `for key in keys` from the k-th key on
RECURSIVE HatColumns(_, _, _, _)
HatColumns(fc, ks, k, y_hat_mat) ==
    IF k > Len(ks) THEN Ok(y_hat_mat)
    ELSE IF ks[k] \notin DOMAIN fc THEN Err("KeyError")
    ELSE LET f2 == AsColumn(fc[ks[k]])
             r  == IF AllZeroMat(y_hat_mat) THEN Ok(f2) ELSE ConcatColumns(y_hat_mat, f2)
         IN  IF ~r.ok THEN r ELSE HatColumns(fc, ks, k + 1, r.val)

y_hat_matrix(fc, ks) ==
    IF DOMAIN fc = {} THEN Err("IndexError")   \* list(forecasts.keys())[0]
    ELSE HatColumns(fc, IF ks = <<>> THEN DictKeys(fc) ELSE ks, 1,
                    [i \in 1..Len(fc[0]) |-> <<0>>])

(***************************************************************************)
(* optimal_combination                                                     *)
(***************************************************************************)
\* np.dot(hat_mat[i, :], optimal_mat): the row on the left
projectRowOnLeft(hat_mat, S, optimal_mat) ==
    IF \E i \in 1..Len(hat_mat) : Len(hat_mat[i]) # Len(optimal_mat)
    THEN Err("ValueError")
    ELSE Ok(Eager([i \in 1..Len(hat_mat) |->
                MatVec(TransposeTo(optimal_mat, NumCols(optimal_mat)),
                       [j \in 1..Len(hat_mat[i]) |-> Rat(hat_mat[i][j])])]))

\* new_mat[i, :] = np.dot(optimal_mat, np.transpose(hat_mat[i, :])): ValueError
\* unless the row of hat_mat is as long as optimal_mat is wide
project(hat_mat, S, optimal_mat) ==
    IF \E i \in 1..Len(hat_mat) : Len(hat_mat[i]) # NumCols(optimal_mat)
    THEN Err("ValueError")
    ELSE Ok(Eager([i \in 1..Len(hat_mat) |->
                MatVec(optimal_mat, [j \in 1..Len(hat_mat[i]) |-> Rat(hat_mat[i][j])])]))

\* The variances are counted in units of 1e-7, so that `+ 0.0000001` adds 1.
Epsilon == 1

\* np.sum(sum_mat, axis=1)
RowSums(S) == [i \in 1..Len(S) |-> RSum(S[i])]

\* np.flip(v, 0)
Flip(v) == [i \in 1..Len(v) |-> v[Len(v) + 1 - i]]

\* an unknown method taken for WLSS
WeightDiagDefaultsToWlss(S, m, ms) ==
    IF m = "WLSV"
    THEN Ok(Diag(Flip([i \in 1..Cardinality(DOMAIN ms) |-> Rat(ms[i - 1] + Epsilon)])))
    ELSE Ok(Diag(RowSums(S)))

\* the branches of `if method == ...` that build diag; S is the rational sum_mat
WeightDiag(S, m, ms) ==
    IF m = "WLSS" THEN Ok(Diag(RowSums(S)))
    ELSE IF m = "WLSV"
    THEN Ok(Diag(Flip([i \in 1..Cardinality(DOMAIN ms) |-> Rat(ms[i - 1] + Epsilon)])))
    ELSE Err("ValueError: Invalid method")

\* S (S' S)^-1 S'
OlsMat(S, c) ==
    LET transpose == TransposeTo(S, c)
        g == inv(MatMul(transpose, S, c))
    IN  IF ~g.ok THEN g
        ELSE Ok(MatMul(MatMul(S, g.val, c), transpose, Len(S)))

\* S (S' W^-1 S)^-1 S' W^-1
WeightedMat(S, c, diag) ==
    LET transpose == TransposeTo(S, c)
        w == inv(diag)
    IN  IF ~w.ok THEN w
        ELSE IF Len(diag) # Len(S) THEN Err("ValueError")   \* np.dot(transpose, inv(diag))
        ELSE LET g == inv(MatMul(MatMul(transpose, w.val, Len(S)), S, c))
             IN  IF ~g.ok THEN g
                 ELSE Ok(MatMul(MatMul(MatMul(S, g.val, c), transpose, Len(S)),
                                w.val, Len(S)))

\* the matrix that `project` is given: ols or optimal_mat, or the exception
\* raised on the way to it
CombinationMatrix(S0, m, ms) ==
    LET S == RatMat(S0)
        c == NumCols(S0)
    IN  IF m = "OLS" THEN OlsMat(S, c)
        ELSE LET diag == WeightDiag(S, m, ms)
             IN  IF ~diag.ok THEN diag ELSE WeightedMat(S, c, diag.val)

\* optimal_combination, given its combination matrix P: hat_mat is assembled
\* first, so an exception of y_hat_matrix comes before any of P's
Combine(fc, S0, P) ==
    LET hat_mat == y_hat_matrix(fc, <<>>)
    IN  IF ~hat_mat.ok THEN hat_mat
        ELSE IF ~P.ok THEN P
        ELSE project(hat_mat.val, S0, P.val)

optimal_combination(fc, S0, m, ms) == Combine(fc, S0, CombinationMatrix(S0, m, ms))

(***************************************************************************)
(* proportions.  `df` is the history table, a sequence of rows; the        *)
(* column of index 0 holds the time index and the column of index 1 the    *)
(* root series.                                                            *)
(***************************************************************************)
\* df.iloc[:, lo:hi] on one row (the slice is clipped to the row)
SliceCols(row, lo, hi) == SliceRows(row, lo, hi)

\* df.iloc[:, 1]: IndexError when the table has no column of index 1
RootColumn(d) ==
    IF \E t \in 1..Len(d) : Len(d[t]) < 2 THEN Err("IndexError")
    ELSE Ok([t \in 1..Len(d) |-> d[t][2]])

\* divs.mean(1) of divs = bts / root: the mean over history of series / root
AphProps(bts_dat, root, num) ==
    [j \in 1..num |->
        RDiv(RSum([t \in 1..Len(bts_dat) |-> RDiv(Rat(bts_dat[t][j]), Rat(root[t]))]),
             Rat(Len(bts_dat)))]

\* PHA computed as APH is
PhaPropsAsMeanOfRatios(bts_dat, root, num) == AphProps(bts_dat, root, num)

\* bts_dat.sum(0) / sum(df.iloc[:, 1])
PhaProps(bts_dat, root, num) ==
    [j \in 1..num |->
        RDiv(Rat(Sum([t \in 1..Len(bts_dat) |-> bts_dat[t][j]])), Rat(Sum(root)))]

\* the branches of `if method == ...`
Props(bts_dat, d, m) ==
    LET root == RootColumn(d)
        num  == NumCols(bts_dat)
    IN  IF m = "APH"
        THEN (IF ~root.ok THEN root ELSE Ok(AphProps(bts_dat, root.val, num)))
        ELSE IF m = "PHA"
        THEN (IF ~root.ok THEN root ELSE Ok(PhaProps(bts_dat, root.val, num)))
        ELSE Err("ValueError: Invalid method")

proportions(d, fc, S0, m) ==
    IF 0 \notin DOMAIN fc THEN Err("KeyError")
    ELSE LET n_cols  == Cardinality(DOMAIN fc) + 1
             fcst    == fc[0]
             num_bts == NumCols(S0)
             bts_dat == [t \in 1..Len(d) |-> SliceCols(d[t], n_cols - num_bts, n_cols)]
             props   == Props(bts_dat, d, m)
         IN  IF ~props.ok THEN props
             ELSE Ok(Eager([h \in 1..Len(fcst) |->
                        Eager([j \in 1..Len(props.val) |-> RMul(Rat(fcst[h]), props.val[j])])]))

(***************************************************************************)
(* forecast_proportions.  The forecasts are keyed 0..n-1 in level order.   *)
(* The columns of new_mat are kept as a sequence; column c is cols[c + 1]. *)
(***************************************************************************)
\* np.empty: a column that was never written holds whatever the memory held
Unwritten == <<"unwritten">>

\* the proportion alone, not multiplied by the parent's value
ShareWithoutParent(base, rev_top, fore_sum) ==
    Eager([t \in 1..Len(base) |-> RDiv(Rat(base[t]), Rat(fore_sum[t]))])

\* np.divide(np.multiply(np.transpose(base_fcst), rev_top), fore_sum), one child's column
Share(base, rev_top, fore_sum) ==
    Eager([t \in 1..Len(base) |-> RDiv(RMul(Rat(base[t]), rev_top[t]), Rat(fore_sum[t]))])

\* the two nested loops, over the nodes of every level in turn, from the k-th node on
RECURSIVE Distribute(_, _, _, _, _, _)
Distribute(fc, flat, k, column, first_node, cols) ==
    IF k > Len(flat) THEN Ok(cols)
    ELSE LET num_child == flat[k]
             last_node == first_node + num_child
             lst       == first_node..(last_node - 1)
             horizon   == Len(fc[0])
         IN  IF \E x \in lst : x \notin DOMAIN fc THEN Err("KeyError")
             ELSE IF num_child = 0 \/ column + 1 > Len(cols) \/ last_node > Len(cols)
             THEN Err("IndexError")
             ELSE LET fore_sum == [t \in 1..horizon |->
                                      Sum([i \in 1..num_child |-> fc[first_node + i - 1][t]])]
                      rev_top  == IF column = 0
                                  THEN [t \in 1..horizon |-> Rat(fc[0][t])]
                                  ELSE cols[column + 1]
                      cols2    == Eager([c \in 1..Len(cols) |->
                                      IF c - 1 \in lst THEN Share(fc[c - 1], rev_top, fore_sum)
                                      ELSE cols[c]])
                  IN  Distribute(fc, flat, k + 1, column + 1, last_node, cols2)

forecast_proportions(fc, nd) ==
    IF 0 \notin DOMAIN fc THEN Err("KeyError")
    ELSE LET n == Cardinality(DOMAIN fc)
             horizon == Len(fc[0])
             start == [c \in 1..n |->
                          IF c = 1 THEN [t \in 1..horizon |-> Rat(fc[0][t])] ELSE Unwritten]
             r == Distribute(fc, Flatten(nd), 1, 0, 1, start)
         IN  IF ~r.ok THEN r
             ELSE Ok(Eager([t \in 1..horizon |->
                        Eager([c \in 1..n |-> IF r.val[c] = Unwritten THEN Unwritten
                                              ELSE r.val[c][t]])]))


(***************************************************************************)
(* The arguments of the calls.                                             *)
(***************************************************************************)
\* the largest forecast value
MaxVal == 1

\* the longest forecast horizon
MaxH == 2

\* the most forecast values (series x horizon steps) in one call
MaxCells == 5

\* the longest explicit key sequence
MaxKeys == 3

\* the largest variance, in units of 1e-7
MaxMse == 1

\* the largest value of the history table, and the most values (series x
\* time steps) of one table
MaxHist == 2

MaxHistCells == 4

SignedVals == (-MaxVal)..MaxVal

NonNegVals == 0..MaxVal

\* n forecasts of h steps each, keyed 0..n-1
ForecastsOver(n, h, vals) == [0..(n - 1) -> [1..h -> vals]]

Shapes == {<<n, h>> \in (1..MaxCells) \X (1..MaxH) : n * h <= MaxCells}

Methods == {"OLS", "WLSS", "WLSV", "APH", "PHA"}

MseProfiles(n) == {[k \in 0..(n - 1) |-> (k + b) % (MaxMse + 1)] : b \in 0..MaxMse}

\* the root's forecast: the 100 of the 30%/70% scenario, or h steps from v on
RootForecasts ==
    {<<100>>} \cup {[t \in 1..h |-> v + t - 1] : h \in 1..MaxH, v \in NonNegVals}

\* a table of T rows: the time index, then one value per node
TablesOver(n, T) ==
    {[t \in 1..T |-> <<t>> \o v[t]] : v \in [1..T -> [1..n -> 0..MaxHist]]}

\* a root that splits 30% / 70% over two bottom series at every time step
SplitHistory(T) == [t \in 1..T |-> <<t, 10 * t, 3 * t, 7 * t>>]

Histories(nd) ==
    UNION {TablesOver(NumNodes(nd), T) : T \in {x \in 1..MaxHistCells : NumNodes(nd) * x <= MaxHistCells}}
    \cup (IF nd = << <<2>> >> THEN {SplitHistory(T) : T \in 1..MaxH} ELSE {})

\* key sequences over the keys of n forecasts; <<>> is keys=None
KeySeqs(n) == {<<>>} \cup UNION {[1..L -> 0..(n - 1)] : L \in 1..Min(n, MaxKeys)}


(***************************************************************************)
(* The calls.                                                              *)
(***************************************************************************)
Init ==
    /\ fn = "idle"
    /\ nodes = <<>>
    /\ forecasts = <<>>
    /\ keys = <<>>
    /\ sum_mat = <<>>
    /\ method = ""
    /\ mse = <<>>
    /\ df = <<>>
    /\ ret = Err("idle")

CallToSumMat ==
    /\ fn = "idle"
    /\ \E nd \in LevelOrders :
          /\ nodes' = nd
          /\ ret' = to_sum_mat(nd)
    /\ fn' = "to_sum_mat"
    /\ UNCHANGED <<forecasts, keys, sum_mat, method, mse, df>>

CallYHatMatrix ==
    /\ fn = "idle"
    /\ \E sh \in Shapes :
          \E fc \in ForecastsOver(sh[1], sh[2], SignedVals), ks \in KeySeqs(sh[1]) :
             /\ forecasts' = fc
             /\ keys' = ks
             /\ ret' = y_hat_matrix(fc, ks)
    /\ fn' = "y_hat_matrix"
    /\ UNCHANGED <<nodes, sum_mat, method, mse, df>>

\* to_sum_mat has returned the summing matrix of a valid hierarchy
HasSummingMatrix == fn = "to_sum_mat" /\ ret.ok /\ ValidLevelOrder(nodes)

\* The caller passes on what to_sum_mat gave it, with one forecast and one
\* variance per row.  mse is read by the WLSV branch alone.
CallOptimalCombination ==
    /\ HasSummingMatrix
    /\ \E m \in Methods, h \in 1..MaxH :
          LET n == NumNodes(nodes)
              S == ret.val
          IN  /\ n * h <= MaxCells
              /\ \E ms \in IF m = "WLSV" THEN MseProfiles(n) ELSE {[k \in 0..(n - 1) |-> 0]} :
                    \* the combination matrix does not depend on the forecasts
                    LET P == CombinationMatrix(S, m, ms)
                    IN  \E fc \in ForecastsOver(n, h, NonNegVals) :
                           /\ sum_mat' = S
                           /\ forecasts' = fc
                           /\ method' = m
                           /\ mse' = ms
                           /\ ret' = Combine(fc, S, P)
    /\ fn' = "optimal_combination"
    /\ UNCHANGED <<nodes, keys, df>>

\* The history table has the time index, then one column per node, the root
\* first and the bottom series last.  Of the forecasts the root's alone is
\* read; the others are counted.
CallProportions ==
    /\ HasSummingMatrix
    /\ \E m \in Methods, d \in Histories(nodes), rf \in RootForecasts :
          LET fc == [k \in 0..(NumNodes(nodes) - 1) |->
                        IF k = 0 THEN rf ELSE [t \in 1..Len(rf) |-> 0]]
          IN  /\ sum_mat' = ret.val
              /\ forecasts' = fc
              /\ method' = m
              /\ df' = d
              /\ ret' = proportions(d, fc, ret.val, m)
    /\ fn' = "proportions"
    /\ UNCHANGED <<nodes, keys, mse>>

CallForecastProportions ==
    /\ fn = "idle"
    /\ \E nd \in {x \in LevelOrders : ValidLevelOrder(x)}, h \in 1..MaxH :
          /\ NumNodes(nd) * h <= MaxCells
          /\ \E fc \in ForecastsOver(NumNodes(nd), h, SignedVals) :
                /\ nodes' = nd
                /\ forecasts' = fc
                /\ ret' = forecast_proportions(fc, nd)
    /\ fn' = "forecast_proportions"
    /\ UNCHANGED <<keys, sum_mat, method, mse, df>>

\* the call has returned (or raised); the next call starts afresh
Return ==
    /\ fn # "idle"
    /\ fn' = "idle"
    /\ nodes' = <<>>
    /\ forecasts' = <<>>
    /\ keys' = <<>>
    /\ sum_mat' = <<>>
    /\ method' = ""
    /\ mse' = <<>>
    /\ df' = <<>>
    /\ ret' = Err("idle")

SpecSumMat == Init /\ [][CallToSumMat \/ Return]_vars

SpecYHat == Init /\ [][CallYHatMatrix \/ Return]_vars

SpecReconcile ==
    Init /\ [][CallToSumMat \/ CallOptimalCombination \/ CallProportions \/ Return]_vars

SpecForecastProportions == Init /\ [][CallForecastProportions \/ Return]_vars

Next ==
    \/ CallToSumMat
    \/ CallYHatMatrix
    \/ CallOptimalCombination
    \/ CallProportions
    \/ CallForecastProportions
    \/ Return

Spec == Init /\ [][Next]_vars

(***************************************************************************)
(* The summing matrix of a level-order structure, from the top down: the   *)
(* row of the p-th node at depth d has 1 in the columns of the bottom      *)
(* nodes below it.                                                         *)
(***************************************************************************)
\* the positions, at depth d + 1, of the children of the p-th node at depth d
ChildPositions(nd, d, p) == (SumTo(nd[d + 1], p - 1) + 1)..SumTo(nd[d + 1], p)

RECURSIVE Leaves(_, _, _)
Leaves(nd, d, p) ==
    IF d = Len(nd) THEN {p}
    ELSE UNION {Leaves(nd, d + 1, q) : q \in ChildPositions(nd, d, p)}

NodesAtDepth(nd, d) == IF d = 0 THEN 1 ELSE Sum(nd[d])

BottomCount(nd) == Sum(nd[Len(nd)])

MembershipRows(nd, d) ==
    [p \in 1..NodesAtDepth(nd, d) |->
        [j \in 1..BottomCount(nd) |-> IF j \in Leaves(nd, d, p) THEN 1 ELSE 0]]

SummingMatrix(nd) == Flatten([i \in 1..(Len(nd) + 1) |-> MembershipRows(nd, i - 1)])

Malformed(nd) == \E i \in 1..(Len(nd) - 1) : Sum(nd[i]) # Len(nd[i + 1])

ExampleLevelOrder == << <<2>>, <<2, 1>> >>

\* C1: for every valid level-order structure to_sum_mat returns the summing
\* matrix: the all-ones root row, one membership row per node of each level
\* from the shallowest to the deepest, the identity block at the bottom.
C1_SummingMatrixOfEveryValidHierarchy ==
    (fn = "to_sum_mat" /\ ValidLevelOrder(nodes))
        => (ret.ok /\ ret.val = SummingMatrix(nodes))

\* C2 as stated: the matrix has one row per node and one column per bottom
\* series, and for [[2],[2,1]] it is the 5 x 3 matrix of the specification.
C2_ExampleIsFiveByThree ==
    (fn = "to_sum_mat" /\ ValidLevelOrder(nodes))
        => /\ ret.ok => /\ Len(ret.val) = NumNodes(nodes)
                        /\ \A i \in 1..Len(ret.val) : Len(ret.val[i]) = BottomCount(nodes)
           /\ nodes = ExampleLevelOrder
                => (ret.ok /\ ret.val = << <<1, 1, 1>>, <<1, 1, 0>>, <<1, 0, 0>>,
                                           <<0, 1, 0>>, <<0, 0, 1>> >>)

\* C2 amended: whenever to_sum_mat returns a matrix for a valid level-order
\* structure, the matrix has one row per node (the root included) and one
\* column per bottom series; for [[2],[2,1]] (six nodes: the root, A, B, A1,
\* A2 and B's one child) it returns the 6 x 3 matrix below.
C2_RowsAreNodesExampleIsSixByThree ==
    (fn = "to_sum_mat" /\ ValidLevelOrder(nodes))
        => /\ ret.ok => /\ Len(ret.val) = NumNodes(nodes)
                        /\ \A i \in 1..Len(ret.val) : Len(ret.val[i]) = BottomCount(nodes)
           /\ nodes = ExampleLevelOrder
                => (ret.ok /\ ret.val = << <<1, 1, 1>>, <<1, 1, 0>>, <<0, 0, 1>>,
                                           <<1, 0, 0>>, <<0, 1, 0>>, <<0, 0, 1>> >>)

C2_ExampleReturned ==
    fn = "to_sum_mat" /\ nodes = ExampleLevelOrder /\ ret.ok /\ Len(ret.val) = 6

\* C6: on a malformed or empty level-order structure to_sum_mat raises and
\* returns no matrix.
C6_MalformedStructureRaises ==
    (fn = "to_sum_mat" /\ (nodes = <<>> \/ Malformed(nodes))) => ~ret.ok

\* Not a claim: apart from the structures on which to_sum_mat raises, what it
\* returns for a valid structure is the summing matrix.
SummingMatrixWhenReturned ==
    (fn = "to_sum_mat" /\ ValidLevelOrder(nodes) /\ ret.ok)
        => ret.val = SummingMatrix(nodes)

(***************************************************************************)
(* The forecast matrix and the reconciled matrix.                          *)
(***************************************************************************)
\* the keys y_hat_matrix is to take its columns from
KeysUsed == IF keys = <<>> THEN DictKeys(forecasts) ELSE keys

Horizon == Len(forecasts[0])

\* the base forecasts of all nodes as a matrix, one row per horizon step
BaseMatrix ==
    [t \in 1..Horizon |-> [k \in 1..Cardinality(DOMAIN forecasts) |-> Rat(forecasts[k - 1][t])]]

\* the last c entries of a row
BottomOf(r, c) == SubSeq(r, Len(r) - c + 1, Len(r))

\* S applied to the bottom-level entries of the row
Aggregated(r) == MatVec(RatMat(sum_mat), BottomOf(r, NumCols(sum_mat)))

BaseIsConsistent == \A t \in 1..Horizon : BaseMatrix[t] = Aggregated(BaseMatrix[t])

\* C3: every row of the matrix returned by optimal_combination under OLS,
\* WLSS or WLSV equals S applied to its own bottom-level entries: every parent
\* is the sum of its children and the root the sum of all bottom series.
C3_ReconciledRowsAggregate ==
    (fn = "optimal_combination" /\ method \in {"OLS", "WLSS", "WLSV"} /\ ret.ok)
        => \A t \in 1..Len(ret.val) : ret.val[t] = Aggregated(ret.val[t])

C3_InconsistentBaseReconciled ==
    /\ fn = "optimal_combination"
    /\ method = "WLSS"
    /\ ret.ok
    /\ ~BaseIsConsistent
    /\ Len(sum_mat) = 5

\* C4: under OLS, base forecasts that already satisfy full = S . bottom at
\* every horizon step come back unchanged.
C4_OlsReturnsConsistentBase ==
    (fn = "optimal_combination" /\ method = "OLS" /\ BaseIsConsistent)
        => (ret.ok /\ ret.val = BaseMatrix)

\* Not a claim: whenever OLS returns a matrix for consistent base forecasts,
\* the matrix is the base forecasts.
OlsIdempotentWhenReturned ==
    (fn = "optimal_combination" /\ method = "OLS" /\ BaseIsConsistent /\ ret.ok)
        => ret.val = BaseMatrix

\* C5: y_hat_matrix returns a matrix with one column per key, column j holding
\* the forecast of the j-th key, whatever the forecast values are.
C5_OneColumnPerKey ==
    fn = "y_hat_matrix"
        => /\ ret.ok
           /\ Len(ret.val) = Horizon
           /\ \A t \in 1..Len(ret.val) :
                 /\ Len(ret.val[t]) = Len(KeysUsed)
                 /\ \A j \in 1..Len(ret.val[t]) : ret.val[t][j] = forecasts[KeysUsed[j]][t]

\* Not a claim: C5 holds whenever the forecast of the first key is not all zero.
OneColumnPerKeyUnlessLeadingZeros ==
    (fn = "y_hat_matrix" /\ \E t \in 1..Horizon : forecasts[KeysUsed[1]][t] # 0)
        => /\ ret.ok
           /\ \A t \in 1..Len(ret.val) :
                 /\ Len(ret.val[t]) = Len(KeysUsed)
                 /\ \A j \in 1..Len(ret.val[t]) : ret.val[t][j] = forecasts[KeysUsed[j]][t]

InvalidMethod == Err("ValueError: Invalid method")

\* C7: optimal_combination with a method outside {OLS, WLSS, WLSV}, and
\* proportions with a method outside {APH, PHA}, raise the invalid-method
\* error and return no matrix.
C7_UnknownMethodRaises ==
    /\ (fn = "optimal_combination" /\ method \notin {"OLS", "WLSS", "WLSV"})
          => ret = InvalidMethod
    /\ (fn = "proportions" /\ method \notin {"APH", "PHA"})
          => ret = InvalidMethod

C7_UnknownMethodGiven ==
    /\ fn = "optimal_combination"
    /\ method = "PHA"
    /\ ret = InvalidMethod
    /\ \E k \in DOMAIN forecasts : forecasts[k][1] # 0

(***************************************************************************)
(* proportions                                                             *)
(***************************************************************************)
\* the column of the history table that holds bottom series j
BottomColumn(j) == Len(df[1]) - NumCols(sum_mat) + j

HistorySum(col) == Sum([t \in 1..Len(df) |-> df[t][col]])

RootIsSumOfBottoms ==
    \A t \in 1..Len(df) :
       df[t][2] = Sum([j \in 1..NumCols(sum_mat) |-> df[t][BottomColumn(j)]])

\* entry (h, j) is the root forecast at step h times
\* (history sum of bottom series j) / (history sum of the root)
PhaEntries ==
    /\ ret.ok
    /\ Len(ret.val) = Horizon
    /\ \A h \in 1..Len(ret.val) :
          /\ Len(ret.val[h]) = NumCols(sum_mat)
          /\ \A j \in 1..Len(ret.val[h]) :
                ret.val[h][j] = RMul(Rat(forecasts[0][h]),
                                     RDiv(Rat(HistorySum(BottomColumn(j))), Rat(HistorySum(2))))

SplitScenario == \E T \in 1..MaxH : df = SplitHistory(T)

RowsSumToRoot == \A h \in 1..Len(ret.val) : RSum(ret.val[h]) = Rat(forecasts[0][h])

ChildrenOf(p) == (1 + SumTo(Flatten(nodes), p))..SumTo(Flatten(nodes), p + 1)

Parents == 0..(Len(Flatten(nodes)) - 1)

\* the sum of the base forecasts of the children of p at step t
SiblingSum(p, t) ==
    LET lo == 1 + SumTo(Flatten(nodes), p)
    IN  Sum([i \in 1..Flatten(nodes)[p + 1] |-> forecasts[lo + i - 1][t]])

SomeSiblingSumZero == \E p \in Parents, t \in 1..Horizon : SiblingSum(p, t) = 0

\* the output column of node k at step t
Out(k, t) == ret.val[t][k + 1]

\* C8: with non-zero sibling sums, column 0 is the root's base forecast and the
\* children of every node get, at every step, their shares of the node's own
\* output value, which they sum to.
C8_ChildrenShareParent ==
    (fn = "forecast_proportions" /\ ~SomeSiblingSumZero)
        => /\ ret.ok
           /\ Len(ret.val) = Horizon
           /\ \A t \in 1..Horizon :
                 /\ Len(ret.val[t]) = NumNodes(nodes)
                 /\ Out(0, t) = Rat(forecasts[0][t])
                 /\ \A p \in Parents :
                       /\ RSum([i \in 1..Flatten(nodes)[p + 1] |->
                                   Out(SumTo(Flatten(nodes), p) + i, t)]) = Out(p, t)
                       /\ \A c \in ChildrenOf(p) :
                             Out(c, t) = RMul(RDiv(Rat(forecasts[c][t]), Rat(SiblingSum(p, t))),
                                              Out(p, t))

C8_TwoLevelsDistributed ==
    /\ fn = "forecast_proportions"
    /\ ~SomeSiblingSumZero
    /\ nodes = << <<2>>, <<1, 1>> >>
    /\ ret.ok
    /\ Out(1, 1) # Rat(forecasts[1][1])
    /\ Out(1, 1) # Out(2, 1)

\* C9: when some sibling group's base forecasts sum to zero at some step,
\* forecast_proportions raises, or else returns a matrix of defined entries.
C9_ZeroSiblingSumNeverUndefined ==
    (fn = "forecast_proportions" /\ SomeSiblingSumZero)
        => (ret.ok => \A t \in 1..Len(ret.val) : \A k \in 1..Len(ret.val[t]) :
                         IsFinite(ret.val[t][k]))

====
